---- MODULE Spec2Model ----
(***************************************************************************)
(* Model of the Dashboard React component                                  *)
(*   src/ui/src/components/Dashboard.js   (the copy mounted by ui/src/App) *)
(*   src/unnamed/part_000                 (a second copy of the component) *)
(* The two copies differ only in fetchMetrics: the first rejects a         *)
(* response whose `ok` flag is false, the second parses every response.    *)
(*                                                                         *)
(* JavaScript runs each handler and each promise continuation to           *)
(* completion, so every action below is one handler or one continuation.   *)
(* A string is a sequence of fragments; a template literal concatenates.   *)
(***************************************************************************)
EXTENDS Integers, Sequences, FiniteSets, TLC

VARIABLES
    source,               \* which copy of the component is running
    phase,                \* "constructed" | "mounted" | "unmounted"
    metrics,              \* this.state.metrics
    loading,              \* this.state.loading
    pipelineRunning,      \* this.state.pipelineRunning
    message,              \* this.state.message
    autoRefreshEnabled,   \* this.state.autoRefreshEnabled
    autoRefreshInterval,  \* this.state.autoRefreshInterval
    activeTimers,         \* interval ids the host runtime will still fire
    nextTimerId,          \* next id setInterval returns
    fetchInFlight,        \* GET /api/metrics requests not yet settled
    pipeInFlight,         \* POST /api/run-pipeline requests not yet settled
    delayed,              \* pending one-shot setTimeout callbacks, oldest first;
                          \* each entry is the phase it was scheduled in
    lastEvent,            \* history: the handler that ran last, and its input
    toggleRun             \* history: toggles in a row, and the state before them

stateFields == <<metrics, loading, pipelineRunning, message,
                 autoRefreshEnabled, autoRefreshInterval>>

vars == <<source, phase, metrics, loading, pipelineRunning, message,
          autoRefreshEnabled, autoRefreshInterval, activeTimers, nextTimerId,
          fetchInFlight, pipeInFlight, delayed, lastEvent, toggleRun>>

(***************************************************************************)
(* Bounds                                                                  *)
(***************************************************************************)
MaxInFlight == 2
MaxDelayed == 1
MaxTimerId == 2

(***************************************************************************)
(* Values                                                                  *)
(***************************************************************************)
\* null (this.state.metrics, this.state.message)
NULL == [null |-> TRUE]
\* this.state.autoRefreshInterval is null or a positive id; both null and 0
\* are falsy, and setInterval never returns 0
NoHandle == 0
\* an optional field of a JSON body: <<>> when the key is missing
Absent == <<>>
Some(v) == <<v>>

\* the glyph U+2705 that the code searches the status string for
SuccessMarker == "[U+2705]"

\* s.includes(m) for a one-fragment needle
includes(s, m) == \E i \in DOMAIN s : s[i] = m

\* does the string s contain the string t as a contiguous part
Contains(s, t) ==
    \E i \in 0..(Len(s) - Len(t)) :
        \A j \in 1..Len(t) : s[i + j] = t[j]

Msg(type, text) == [type |-> type, text |-> text]

MsgMetricsLoaded == Msg("success", <<SuccessMarker, " Metrics loaded successfully">>)
MsgPipelineRunning == Msg("info", <<"[U+23F3] Running analysis pipeline...">>)
MsgPipelineCompleted ==
    Msg("success", <<SuccessMarker, " Pipeline completed! Fetching new data...">>)
MsgAutoRefreshDisabled == Msg("info", <<"Auto-refresh disabled">>)
MsgAutoRefreshEnabled ==
    Msg("info", <<SuccessMarker, " Auto-refresh enabled (every 60 sec)">>)

\* `[U+274C] Error: ${error.message}`
MsgFetchError(errmsg) == Msg("danger", <<"[U+274C] Error: ">> \o errmsg)
\* `[U+274C] Pipeline error: ${error.message}`
MsgPipelineError(errmsg) == Msg("danger", <<"[U+274C] Pipeline error: ">> \o errmsg)

(***************************************************************************)
(* What the transport can deliver                                          *)
(***************************************************************************)
\* error.message of the TypeError fetch() rejects with
ErrNetwork == <<"Failed to fetch">>
\* error.message of the SyntaxError response.json() rejects with
ErrJson == <<"Unexpected token < in JSON">>
\* error.message of the TypeError raised by undefined.includes(...)
ErrNoStatus == <<"Cannot read properties of undefined (reading 'includes')">>

HttpStatuses == {200, 500}
StatusText(code) == IF code = 200 THEN <<"OK">> ELSE <<"Internal Server Error">>
\* Response.ok
ok(code) == code \in 200..299

\* `HTTP ${response.status}: ${response.statusText}`
ErrHttp(code) == <<"HTTP ", ToString(code), ": ">> \o StatusText(code)

Payload(fqs, csc, burnout, hours, err) ==
    [fqs |-> fqs, csc |-> csc, burnout_score |-> burnout,
     total_hours |-> hours, error |-> err]

\* numeric fields are in hundredths: 7250 is 72.50
MetricsPayloads ==
    { Payload(Some(7250), Some(0), Some(300), Some(550), Absent),
      Payload(Absent, Absent, Some(0), Absent, Absent),
      Payload(Some(1000), Absent, Absent, Absent, Some("No data")) }

\* a body response.json() cannot decode
BadBody == [undecodable |-> TRUE]
\* a JSON body without a status key
NoStatusBody == [detail |-> <<"Internal Server Error">>]

Rejected == [kind |-> "rejected"]
Response(code, body) == [kind |-> "response", status |-> code, body |-> body]

FetchResponses ==
    {Rejected} \cup
    { Response(c, b) : c \in HttpStatuses, b \in MetricsPayloads \cup {BadBody} }

StatusStrings ==
    { <<SuccessMarker, " done">>, <<"done ", SuccessMarker>>,
      <<"still processing">>, <<>> }

PipelineBodies ==
    { [status |-> s] : s \in StatusStrings } \cup { NoStatusBody, BadBody }

PipelineResponses ==
    {Rejected} \cup { Response(c, b) : c \in HttpStatuses, b \in PipelineBodies }

(***************************************************************************)
(* React: setState on a component that is not mounted changes nothing      *)
(***************************************************************************)
setState(cur, new) == IF phase = "unmounted" THEN cur ELSE new

Event(op, input) == [op |-> op, input |-> input]
NoRun == [n |-> 0, base |-> NULL]
Snapshot ==
    [metrics |-> metrics, loading |-> loading,
     pipelineRunning |-> pipelineRunning,
     autoRefreshEnabled |-> autoRefreshEnabled,
     autoRefreshInterval |-> autoRefreshInterval]

Init ==
    /\ source \in {"Dashboard.js", "part_000"}
    /\ phase = "constructed"
    /\ metrics = NULL
    /\ loading = FALSE
    /\ pipelineRunning = FALSE
    /\ message = NULL
    /\ autoRefreshEnabled = FALSE
    /\ autoRefreshInterval = NoHandle
    /\ activeTimers = {}
    /\ nextTimerId = 1
    /\ fetchInFlight = 0
    /\ pipeInFlight = 0
    /\ delayed = <<>>
    /\ lastEvent = Event("constructor", NULL)
    /\ toggleRun = NoRun

(***************************************************************************)
(* fetchMetrics                                                            *)
(***************************************************************************)
Throw(e) == [thrown |-> TRUE, value |-> e]
Return(v) == [thrown |-> FALSE, value |-> v]

\* the try block of fetchMetrics in Dashboard.js
tryFetch_ui(resp) ==
    IF resp.kind = "rejected" THEN Throw(ErrNetwork)
    ELSE IF ~ok(resp.status) THEN Throw(ErrHttp(resp.status))
    ELSE IF resp.body = BadBody THEN Throw(ErrJson)
    ELSE Return(resp.body)

\* the try block of fetchMetrics in part_000: response.ok is not looked at
tryFetch_part000(resp) ==
    IF resp.kind = "rejected" THEN Throw(ErrNetwork)
    ELSE IF resp.body = BadBody THEN Throw(ErrJson)
    ELSE Return(resp.body)

tryFetch(resp) ==
    IF source = "Dashboard.js" THEN tryFetch_ui(resp) ELSE tryFetch_part000(resp)

\* the finally block of fetchMetrics: the value loading is set to
fetchFinally_onlyOnSuccess(r) == IF r.thrown THEN loading ELSE FALSE
fetchFinally(r) == FALSE

\* fetchMetrics up to its first await: setState({loading: true}); fetch(url)
fetchMetricsCall ==
    /\ fetchInFlight < MaxInFlight
    /\ loading' = setState(loading, TRUE)
    /\ fetchInFlight' = fetchInFlight + 1

\* fetchMetrics from the await on: try / catch / finally
fetchMetricsSettle(resp) ==
    /\ fetchInFlight > 0
    /\ fetchInFlight' = fetchInFlight - 1
    /\ LET r == tryFetch(resp) IN
        /\ metrics' = setState(metrics, IF r.thrown THEN metrics ELSE r.value)
        /\ message' = setState(message, IF r.thrown THEN MsgFetchError(r.value)
                                                   ELSE MsgMetricsLoaded)
        /\ loading' = setState(loading, fetchFinally(r))
    /\ lastEvent' = Event("fetchMetricsSettle", resp)
    /\ toggleRun' = NoRun
    /\ UNCHANGED <<source, phase, pipelineRunning, autoRefreshEnabled,
                   autoRefreshInterval, activeTimers, nextTimerId,
                   pipeInFlight, delayed>>

(***************************************************************************)
(* runPipeline                                                             *)
(***************************************************************************)
Outcome(msg, schedule) == [message |-> msg, schedule |-> schedule]

\* the try and catch blocks of runPipeline: the message that is set and
\* whether setTimeout(fetchMetrics, 1000) is called.  response.ok is not
\* looked at in either copy.
tryPipeline_scheduleAlways(resp) ==
    IF resp.kind = "rejected" THEN Outcome(MsgPipelineError(ErrNetwork), FALSE)
    ELSE IF resp.body = BadBody THEN Outcome(MsgPipelineError(ErrJson), FALSE)
    ELSE IF "status" \notin DOMAIN resp.body
        THEN Outcome(MsgPipelineError(ErrNoStatus), FALSE)
    ELSE IF includes(resp.body.status, SuccessMarker)
        THEN Outcome(MsgPipelineCompleted, TRUE)
    ELSE Outcome(Msg("warning", resp.body.status), TRUE)

tryPipeline_genericWarning(resp) ==
    IF resp.kind = "rejected" THEN Outcome(MsgPipelineError(ErrNetwork), FALSE)
    ELSE IF resp.body = BadBody THEN Outcome(MsgPipelineError(ErrJson), FALSE)
    ELSE IF "status" \notin DOMAIN resp.body
        THEN Outcome(MsgPipelineError(ErrNoStatus), FALSE)
    ELSE IF includes(resp.body.status, SuccessMarker)
        THEN Outcome(MsgPipelineCompleted, TRUE)
    ELSE Outcome(Msg("warning", <<"Pipeline failed">>), FALSE)

tryPipeline(resp) ==
    IF resp.kind = "rejected" THEN Outcome(MsgPipelineError(ErrNetwork), FALSE)
    ELSE IF resp.body = BadBody THEN Outcome(MsgPipelineError(ErrJson), FALSE)
    ELSE IF "status" \notin DOMAIN resp.body
        THEN Outcome(MsgPipelineError(ErrNoStatus), FALSE)
    ELSE IF includes(resp.body.status, SuccessMarker)
        THEN Outcome(MsgPipelineCompleted, TRUE)
    ELSE Outcome(Msg("warning", resp.body.status), FALSE)

runPipelineCall_keepMessage ==
    /\ pipeInFlight < MaxInFlight
    /\ pipelineRunning' = setState(pipelineRunning, TRUE)
    /\ message' = message
    /\ pipeInFlight' = pipeInFlight + 1

\* runPipeline up to its first await
runPipelineCall ==
    /\ pipeInFlight < MaxInFlight
    /\ pipelineRunning' = setState(pipelineRunning, TRUE)
    /\ message' = setState(message, MsgPipelineRunning)
    /\ pipeInFlight' = pipeInFlight + 1

\* runPipeline from the await on: try / catch / finally
runPipelineSettle(resp) ==
    /\ pipeInFlight > 0
    /\ pipeInFlight' = pipeInFlight - 1
    /\ LET r == tryPipeline(resp) IN
        /\ r.schedule => Len(delayed) < MaxDelayed
        /\ message' = setState(message, r.message)
        /\ delayed' = IF r.schedule THEN Append(delayed, phase) ELSE delayed
    /\ pipelineRunning' = setState(pipelineRunning, FALSE)
    /\ lastEvent' = Event("runPipelineSettle", resp)
    /\ toggleRun' = NoRun
    /\ UNCHANGED <<source, phase, metrics, loading, autoRefreshEnabled,
                   autoRefreshInterval, activeTimers, nextTimerId,
                   fetchInFlight>>

\* the setTimeout callback of runPipeline
delayedFetch ==
    /\ delayed # <<>>
    /\ delayed' = Tail(delayed)
    /\ fetchMetricsCall
    /\ lastEvent' = Event("delayedFetch", NULL)
    /\ toggleRun' = NoRun
    /\ UNCHANGED <<source, phase, metrics, pipelineRunning, message,
                   autoRefreshEnabled, autoRefreshInterval, activeTimers,
                   nextTimerId, pipeInFlight>>

(***************************************************************************)
(* toggleAutoRefresh and the interval timer                                *)
(***************************************************************************)
toggleAutoRefresh_keepHandle ==
    /\ IF autoRefreshEnabled
       THEN /\ activeTimers' = activeTimers \ {autoRefreshInterval}
            /\ autoRefreshEnabled' = setState(autoRefreshEnabled, FALSE)
            /\ autoRefreshInterval' = autoRefreshInterval
            /\ message' = setState(message, MsgAutoRefreshDisabled)
            /\ UNCHANGED nextTimerId
       ELSE /\ nextTimerId <= MaxTimerId
            /\ activeTimers' = activeTimers \cup {nextTimerId}
            /\ nextTimerId' = nextTimerId + 1
            /\ autoRefreshEnabled' = setState(autoRefreshEnabled, TRUE)
            /\ autoRefreshInterval' = setState(autoRefreshInterval, nextTimerId)
            /\ message' = setState(message, MsgAutoRefreshEnabled)

toggleAutoRefresh_noClear ==
    /\ IF autoRefreshEnabled
       THEN /\ activeTimers' = activeTimers
            /\ autoRefreshEnabled' = setState(autoRefreshEnabled, FALSE)
            /\ autoRefreshInterval' = setState(autoRefreshInterval, NoHandle)
            /\ message' = setState(message, MsgAutoRefreshDisabled)
            /\ UNCHANGED nextTimerId
       ELSE /\ nextTimerId <= MaxTimerId
            /\ activeTimers' = activeTimers \cup {nextTimerId}
            /\ nextTimerId' = nextTimerId + 1
            /\ autoRefreshEnabled' = setState(autoRefreshEnabled, TRUE)
            /\ autoRefreshInterval' = setState(autoRefreshInterval, nextTimerId)
            /\ message' = setState(message, MsgAutoRefreshEnabled)

toggleAutoRefresh ==
    /\ IF autoRefreshEnabled
       THEN \* clearInterval(autoRefreshInterval); setState({...})
            /\ activeTimers' = activeTimers \ {autoRefreshInterval}
            /\ autoRefreshEnabled' = setState(autoRefreshEnabled, FALSE)
            /\ autoRefreshInterval' = setState(autoRefreshInterval, NoHandle)
            /\ message' = setState(message, MsgAutoRefreshDisabled)
            /\ UNCHANGED nextTimerId
       ELSE \* interval = setInterval(...); setState({...})
            /\ nextTimerId <= MaxTimerId
            /\ activeTimers' = activeTimers \cup {nextTimerId}
            /\ nextTimerId' = nextTimerId + 1
            /\ autoRefreshEnabled' = setState(autoRefreshEnabled, TRUE)
            /\ autoRefreshInterval' = setState(autoRefreshInterval, nextTimerId)
            /\ message' = setState(message, MsgAutoRefreshEnabled)

\* the setInterval callback: this.runPipeline()
timerTick ==
    /\ activeTimers # {}
    /\ runPipelineCall
    /\ lastEvent' = Event("timerTick", NULL)
    /\ toggleRun' = NoRun
    /\ UNCHANGED <<source, phase, metrics, loading, autoRefreshEnabled,
                   autoRefreshInterval, activeTimers, nextTimerId,
                   fetchInFlight, delayed>>

(***************************************************************************)
(* Lifecycle                                                               *)
(***************************************************************************)
componentDidMount ==
    /\ phase = "constructed"
    /\ phase' = "mounted"
    /\ fetchMetricsCall
    /\ lastEvent' = Event("componentDidMount", NULL)
    /\ toggleRun' = NoRun
    /\ UNCHANGED <<source, metrics, pipelineRunning, message,
                   autoRefreshEnabled, autoRefreshInterval, activeTimers,
                   nextTimerId, pipeInFlight, delayed>>

componentWillUnmount_noClear ==
    /\ phase = "mounted"
    /\ phase' = "unmounted"
    /\ activeTimers' = activeTimers
    /\ lastEvent' = Event("componentWillUnmount", NULL)
    /\ toggleRun' = NoRun
    /\ UNCHANGED <<source, metrics, loading, pipelineRunning, message,
                   autoRefreshEnabled, autoRefreshInterval, nextTimerId,
                   fetchInFlight, pipeInFlight, delayed>>

componentWillUnmount ==
    /\ phase = "mounted"
    /\ phase' = "unmounted"
    /\ activeTimers' = IF autoRefreshInterval # NoHandle
                       THEN activeTimers \ {autoRefreshInterval}
                       ELSE activeTimers
    /\ lastEvent' = Event("componentWillUnmount", NULL)
    /\ toggleRun' = NoRun
    /\ UNCHANGED <<source, metrics, loading, pipelineRunning, message,
                   autoRefreshEnabled, autoRefreshInterval, nextTimerId,
                   fetchInFlight, pipeInFlight, delayed>>

(***************************************************************************)
(* render: the controls the View offers                                    *)
(***************************************************************************)
RunDisabled == pipelineRunning \/ loading
AutoRefreshDisabled == pipelineRunning
RefreshDisabled == loading

\* truthiness of an optional string field: undefined and "" are falsy
truthy(f) == f # Absent /\ f[1] # ""

\* the glyph U+2014 shown for a value that has no text
Dash == <<"[U+2014]">>

\* Number.prototype.toFixed(1) and toFixed(2) of a value in hundredths
toFixed1(v) ==
    LET t == (v + 5) \div 10
    IN  <<ToString(t \div 10), ".", ToString(t % 10)>>
toFixed2(v) ==
    <<ToString(v \div 100), ".", ToString((v % 100) \div 10), ToString(v % 10)>>

\* metrics.x?.toFixed(1) || the dash; a toFixed result is never empty
fixed1OrDash(f) == IF f = Absent THEN Dash ELSE toFixed1(f[1])
fixed2OrDash(f) == IF f = Absent THEN Dash ELSE toFixed2(f[1])

\* metrics.fqs || 0, the width of the progress bar
orZero(f) == IF f = Absent \/ f[1] = 0 THEN 0 ELSE f[1]

\* metrics.csc < k: undefined converts to NaN and every comparison is false
lessThan(f, k) == f # Absent /\ f[1] < k

cscStatus(f) ==
    IF lessThan(f, 150) THEN "Healthy"
    ELSE IF lessThan(f, 300) THEN "Moderate"
    ELSE "High"

metricsGrid(m) ==
    [area |-> "metrics-grid",
     fqs |-> fixed1OrDash(m.fqs),
     fqsWidth |-> orZero(m.fqs),
     csc |-> fixed2OrDash(m.csc),
     cscStatus |-> cscStatus(m.csc),
     burnout_score |-> fixed1OrDash(m.burnout_score),
     total_hours |-> fixed1OrDash(m.total_hours)]

\* the Metrics Display part of render
renderMetrics_ignoreError(ld, m) ==
    IF ld THEN [area |-> "loading-state"]
    ELSE IF m # NULL THEN metricsGrid(m)
    ELSE [area |-> "no-data"]

renderMetrics(ld, m) ==
    IF ld THEN [area |-> "loading-state"]
    ELSE IF m # NULL /\ ~truthy(m.error) THEN metricsGrid(m)
    ELSE [area |-> "no-data"]

View == renderMetrics(loading, metrics)

clickRun ==
    /\ phase = "mounted"
    /\ ~RunDisabled
    /\ runPipelineCall
    /\ lastEvent' = Event("clickRun", NULL)
    /\ toggleRun' = NoRun
    /\ UNCHANGED <<source, phase, metrics, loading, autoRefreshEnabled,
                   autoRefreshInterval, activeTimers, nextTimerId,
                   fetchInFlight, delayed>>

clickAutoRefresh ==
    /\ phase = "mounted"
    /\ ~AutoRefreshDisabled
    /\ toggleAutoRefresh
    /\ lastEvent' = Event("clickAutoRefresh", NULL)
    /\ toggleRun' = [n |-> toggleRun.n + 1,
                     base |-> IF toggleRun.n = 0 THEN Snapshot ELSE toggleRun.base]
    /\ UNCHANGED <<source, phase, metrics, loading, pipelineRunning,
                   fetchInFlight, pipeInFlight, delayed>>

clickRefresh ==
    /\ phase = "mounted"
    /\ ~RefreshDisabled
    /\ fetchMetricsCall
    /\ lastEvent' = Event("clickRefresh", NULL)
    /\ toggleRun' = NoRun
    /\ UNCHANGED <<source, phase, metrics, pipelineRunning, message,
                   autoRefreshEnabled, autoRefreshInterval, activeTimers,
                   nextTimerId, pipeInFlight, delayed>>

\* Alert onClose
dismissMessage ==
    /\ phase = "mounted"
    /\ message # NULL
    /\ message' = NULL
    /\ lastEvent' = Event("dismissMessage", NULL)
    /\ toggleRun' = NoRun
    /\ UNCHANGED <<source, phase, metrics, loading, pipelineRunning,
                   autoRefreshEnabled, autoRefreshInterval, activeTimers,
                   nextTimerId, fetchInFlight, pipeInFlight, delayed>>

Next ==
    \/ componentDidMount
    \/ componentWillUnmount
    \/ clickRun
    \/ clickAutoRefresh
    \/ clickRefresh
    \/ dismissMessage
    \/ timerTick
    \/ delayedFetch
    \/ \E resp \in FetchResponses : fetchMetricsSettle(resp)
    \/ \E resp \in PipelineResponses : runPipelineSettle(resp)

Spec == Init /\ [][Next]_vars

(***************************************************************************)
(* Properties                                                              *)
(***************************************************************************)
Live == phase # "unmounted"

\* the transport outcomes the specification calls a failure
FetchFailed(resp) ==
    \/ resp.kind = "rejected"
    \/ ~ok(resp.status)
    \/ resp.body = BadBody

\* the error texts that describe a failed outcome
ErrorTexts(resp) ==
    IF resp.kind = "rejected" THEN {ErrNetwork}
    ELSE (IF ~ok(resp.status) THEN {ErrHttp(resp.status)} ELSE {})
         \cup (IF resp.body = BadBody THEN {ErrJson} ELSE {})

\* a decoded body whose status string has / lacks the success marker
HasStatus(resp) == resp.kind = "response" /\ "status" \in DOMAIN resp.body
HasMarker(resp) == HasStatus(resp) /\ includes(resp.body.status, SuccessMarker)
LacksMarker(resp) == HasStatus(resp) /\ ~includes(resp.body.status, SuccessMarker)

\* C1: in every reachable state the stored timer handle autoRefreshInterval
\* is non-null if and only if autoRefreshEnabled is true.
C1_HandleIffEnabled ==
    (autoRefreshInterval # NoHandle) <=> autoRefreshEnabled

\* a second timer was started after the first one was stopped, and it ticked
C1_Witness ==
    /\ autoRefreshEnabled
    /\ autoRefreshInterval = 2
    /\ lastEvent.op = "timerTick"

\* C2: at most one interval timer is active in every reachable state, and
\* two toggleAutoRefresh calls in a row from the disabled state end disabled,
\* with no stored handle, no active timer and every state field other than
\* message as it was before the two calls.
C2_TimerExclusivity ==
    /\ Cardinality(activeTimers) <= 1
    /\ (toggleRun.n = 2 /\ ~toggleRun.base.autoRefreshEnabled) =>
            /\ ~autoRefreshEnabled
            /\ autoRefreshInterval = NoHandle
            /\ activeTimers = {}
            /\ Snapshot = toggleRun.base

\* enable then disable, with a snapshot already loaded and a fetch in flight
C2_Witness ==
    /\ toggleRun.n = 2
    /\ ~toggleRun.base.autoRefreshEnabled
    /\ metrics # NULL
    /\ fetchInFlight > 0

\* C3: unmounting cancels the active interval timer, so after unmount no
\* timer is active and no timer tick invokes runPipeline; unmounting with no
\* stored handle changes no state field, timer, request or pending callback.
C3_UnmountCancelsTimer ==
    [][ /\ (phase' = "unmounted" => activeTimers' = {})
        /\ (phase = "unmounted" =>
                /\ lastEvent'.op # "timerTick"
                /\ pipeInFlight' <= pipeInFlight)
        /\ (phase = "mounted" /\ phase' = "unmounted"
                /\ autoRefreshInterval = NoHandle =>
                UNCHANGED <<stateFields, activeTimers, nextTimerId,
                            fetchInFlight, pipeInFlight, delayed>>) ]_vars

\* unmounted while the second timer started was still running
C3_Witness ==
    /\ phase = "unmounted"
    /\ autoRefreshEnabled
    /\ autoRefreshInterval = 2
    /\ activeTimers = {}

\* C4: when a delayed callback that a successful runPipeline scheduled on
\* the mounted component fires after unmount, it issues no metrics request
\* and changes no state field.
C4_DelayedCallbackNoOp ==
    [][ (phase = "unmounted" /\ lastEvent'.op = "delayedFetch"
                             /\ Head(delayed) = "mounted") =>
            /\ fetchInFlight' = fetchInFlight
            /\ UNCHANGED stateFields ]_vars

\* C5: a fetchMetrics call that fails (rejection, non-success HTTP status,
\* undecodable body) leaves metrics as it was and sets a danger message that
\* contains the error text.
C5_FetchFailureKeepsMetrics ==
    [][ (Live /\ lastEvent'.op = "fetchMetricsSettle"
              /\ FetchFailed(lastEvent'.input)) =>
            /\ metrics' = metrics
            /\ message'.type = "danger"
            /\ \E e \in ErrorTexts(lastEvent'.input) :
                    Contains(message'.text, e) ]_vars

\* C6: a runPipeline invocation schedules the delayed fetchMetrics if and
\* only if its response's status string contains the success marker, with
\* the success message set by then; it issues no fetch itself, and each
\* scheduled callback is consumed only by firing, which calls fetchMetrics
\* exactly once.
C6_ChainedRefetch ==
    [][ /\ lastEvent'.op = "runPipelineSettle" =>
                /\ (Len(delayed') = Len(delayed) + 1)
                        <=> HasMarker(lastEvent'.input)
                /\ ~HasMarker(lastEvent'.input) => delayed' = delayed
                /\ fetchInFlight' = fetchInFlight
                /\ (Live /\ HasMarker(lastEvent'.input)) =>
                        message' = MsgPipelineCompleted
        /\ lastEvent'.op = "delayedFetch" =>
                /\ delayed' = Tail(delayed)
                /\ fetchInFlight' = fetchInFlight + 1
        /\ Len(delayed') > Len(delayed) => lastEvent'.op = "runPipelineSettle"
        /\ Len(delayed') < Len(delayed) => lastEvent'.op = "delayedFetch" ]_vars

\* the success marker was found and the delayed fetch is pending
C6_Witness ==
    /\ lastEvent.op = "runPipelineSettle"
    /\ HasMarker(lastEvent.input)
    /\ Len(delayed) = 1
    /\ message = MsgPipelineCompleted

\* C7: a decodable pipeline response whose status string lacks the success
\* marker sets a warning message whose text is exactly that status string,
\* schedules no delayed fetch, issues no fetch and leaves metrics unchanged.
C7_LogicalFailureWarning ==
    [][ (Live /\ lastEvent'.op = "runPipelineSettle"
              /\ LacksMarker(lastEvent'.input)) =>
            /\ message' = Msg("warning", lastEvent'.input.body.status)
            /\ delayed' = delayed
            /\ fetchInFlight' = fetchInFlight
            /\ metrics' = metrics ]_vars

\* "still processing" was shown as a warning over a loaded snapshot
C7_Witness ==
    /\ lastEvent.op = "runPipelineSettle"
    /\ LacksMarker(lastEvent.input)
    /\ message = Msg("warning", <<"still processing">>)
    /\ metrics # NULL

\* C8: every runPipeline failure (rejection, undecodable body, non-success
\* HTTP status) ends with a danger message and schedules no delayed fetch.
C8_PipelineFailureIsDanger ==
    [][ (Live /\ lastEvent'.op = "runPipelineSettle"
              /\ FetchFailed(lastEvent'.input)) =>
            /\ message'.type = "danger"
            /\ delayed' = delayed ]_vars

\* C9: when a fetchMetrics request settles, whatever the outcome, loading is
\* false afterwards; when a runPipeline request settles, whatever the
\* outcome, pipelineRunning is false afterwards.
C9_BusyFlagsCleared ==
    [][ /\ (Live /\ lastEvent'.op = "fetchMetricsSettle") => loading' = FALSE
        /\ (Live /\ lastEvent'.op = "runPipelineSettle") =>
                pipelineRunning' = FALSE ]_vars

\* a fetch failed on a mounted component and left the flag cleared
C9_Witness ==
    /\ Live
    /\ lastEvent.op = "fetchMetricsSettle"
    /\ FetchFailed(lastEvent.input)
    /\ ~loading
    /\ message.type = "danger"

\* C10: whenever some runPipeline request is in flight on the mounted
\* component, the auto-refresh control is disabled.
C10_ToggleGatedDuringRun ==
    (phase = "mounted" /\ pipeInFlight > 0) => AutoRefreshDisabled

\* the handlers that call fetchMetrics, and those that call runPipeline
FetchTriggers == {"componentDidMount", "clickRefresh", "delayedFetch"}
PipelineTriggers == {"clickRun", "timerTick"}

\* the messages fetchMetrics / runPipeline / toggleAutoRefresh can set
FetchErrors == {ErrNetwork, ErrJson} \cup { ErrHttp(c) : c \in HttpStatuses }
FetchMessages == {MsgMetricsLoaded} \cup { MsgFetchError(e) : e \in FetchErrors }
PipelineMessages ==
    {MsgPipelineRunning, MsgPipelineCompleted}
    \cup { Msg("warning", s) : s \in StatusStrings }
    \cup { MsgPipelineError(e) : e \in {ErrNetwork, ErrJson, ErrNoStatus} }
ToggleMessages == {MsgAutoRefreshEnabled, MsgAutoRefreshDisabled}

\* the messages the operation behind a handler produces
ProducedBy(op) ==
    IF op \in FetchTriggers THEN FetchMessages
    ELSE IF op \in PipelineTriggers THEN PipelineMessages
    ELSE IF op = "clickAutoRefresh" THEN ToggleMessages
    ELSE {}

\* C11 as stated: when fetchMetrics, runPipeline or toggleAutoRefresh is
\* triggered while a message is showing, the message right after the trigger
\* is one produced by the triggered operation.
C11_TriggerOverwritesMessage ==
    [][ (Live /\ message # NULL
              /\ lastEvent'.op \in FetchTriggers \cup PipelineTriggers
                                   \cup {"clickAutoRefresh"}) =>
            message' \in ProducedBy(lastEvent'.op) ]_vars

\* C11 amended: the single message field holds at most one message;
\* triggering runPipeline or toggleAutoRefresh on a component that is not
\* unmounted replaces it at once by that operation's own message, while
\* triggering fetchMetrics leaves it as it is and it is replaced by a
\* fetchMetrics message only when the request settles.
C11_MessageOverwrite ==
    [][ /\ message' \in {NULL} \cup FetchMessages \cup PipelineMessages
                        \cup ToggleMessages
        /\ (Live /\ lastEvent'.op \in PipelineTriggers) =>
                message' = MsgPipelineRunning
        /\ (Live /\ lastEvent'.op = "clickAutoRefresh") =>
                message' = (IF autoRefreshEnabled THEN MsgAutoRefreshDisabled
                                                  ELSE MsgAutoRefreshEnabled)
        /\ lastEvent'.op \in FetchTriggers => message' = message
        /\ (Live /\ lastEvent'.op = "fetchMetricsSettle") =>
                message' \in FetchMessages ]_vars

\* Refresh was clicked while the auto-refresh confirmation was showing, and
\* it is still showing
C11_Witness ==
    /\ lastEvent.op = "clickRefresh"
    /\ message = MsgAutoRefreshEnabled
    /\ loading

\* the error flag of a stored snapshot is set
ErrorSet(m) == m # NULL /\ m.error # Absent

Classifications == {"Healthy", "Moderate", "High"}

\* C13: when the cards are shown, every numeric field missing from the
\* payload is exposed as the dash and as nothing derived from a number (no
\* zero-width bar, no classification), and a field present with value 0 is
\* shown as the number 0.
C13_UnknownFieldFallback ==
    View.area = "metrics-grid" =>
        /\ metrics.fqs = Absent =>
                (View.fqs = Dash /\ View.fqsWidth # 0)
        /\ metrics.csc = Absent =>
                (View.csc = Dash /\ View.cscStatus \notin Classifications)
        /\ metrics.burnout_score = Absent => View.burnout_score = Dash
        /\ metrics.total_hours = Absent => View.total_hours = Dash
        /\ metrics.csc = Some(0) => View.csc = <<"0", ".", "0", "0">>
        /\ metrics.burnout_score = Some(0) =>
                View.burnout_score = <<"0", ".", "0">>

\* C14: fetches are not serialised and the last write wins: on a component
\* that is not unmounted, metrics changes only when a fetch completes
\* successfully (success status, decodable body), and then becomes that
\* fetch's payload, so metrics is always the payload of the most recently
\* completed successful fetch, null if there was none.
C14_LastWriteWins ==
    [][ Live =>
            metrics' = (IF /\ lastEvent'.op = "fetchMetricsSettle"
                           /\ ~FetchFailed(lastEvent'.input)
                        THEN lastEvent'.input.body
                        ELSE metrics) ]_vars

\* C15: on the mounted component loading is true whenever a fetchMetrics
\* request is in flight and pipelineRunning is true whenever a runPipeline
\* request is in flight, so the Refresh and Run buttons are disabled then.
C15_BusyFlagsAccurate ==
    phase = "mounted" =>
        /\ fetchInFlight > 0 => (loading /\ RefreshDisabled /\ RunDisabled)
        /\ pipeInFlight > 0 => (pipelineRunning /\ RunDisabled)

====
